---- MODULE Spec2Model ----
(***************************************************************************)
(* Model of the Ontario agricultural census dashboard (ag_dashboard.py):   *)
(* key normalisation, the wide-to-long reshape of the census table, the    *)
(* boundary join and colour ramp of build_geojson, and the sidebar and     *)
(* legend code that runs on every rerun of the script.                     *)
(*                                                                         *)
(* Strings are sequences of character codes (ASCII), so that the regular   *)
(* expressions and sorted() act on characters as they do in Python.        *)
(* Census values are non-negative whole numbers; NaN stands for an absent  *)
(* value.                                                                  *)
(***************************************************************************)
EXTENDS Integers, Sequences, FiniteSets, TLC

VARIABLES
    wide,       \* the wide census table read from CENSUS_PATH
    geo,        \* the Municipality_Clean names read from GEOJSON_PATH, one per polygon
    loaded,     \* have load_shapefile / load_census run (st.cache_data holds them)
    df_long,    \* module global df_long
    gdf,        \* module global gdf
    session,    \* st.session_state: the keys "year" and "variable"
    out,        \* what the last run of the script produced
    name,       \* argument of the normalize_key call under study
    keys,       \* successive results of normalize_key applied to name
    vrange,     \* <<vmin, vmax>> closed over by _make_color
    swatch      \* the two most recent <<v, _make_color(v)>> results

vars == <<wide, geo, loaded, df_long, gdf, session, out, name, keys, vrange, swatch>>

----------------------------------------------------------------------------
(* Bounds of the model. *)

MaxLen == 3             \* longest name given to normalize_key in SpecKey
MaxColorValue == 9      \* largest value given to _make_color in SpecColor
MaxValue == 1           \* largest census value in a table cell
MaxRows == 2            \* most rows of the wide table
MaxCells == 4           \* most cells (and most data columns) of the wide table
MaxBoundaries == 2      \* most polygons of the boundary file

----------------------------------------------------------------------------
(* Absent values. *)

Null == <<-1>>          \* a missing string cell: None / NaN in an object column
NaN == -1               \* a missing number
Unset == <<-2>>         \* a key that is not in st.session_state

----------------------------------------------------------------------------
(* Characters: 0-9 are 48..57, A-Z are 65..90, a-z are 97..122, _ is 95. *)

IsDigit(c) == c >= 48 /\ c <= 57

IsAlnum(c) == IsDigit(c) \/ (c >= 65 /\ c <= 90) \/ (c >= 97 /\ c <= 122)

str_upper(s) == [i \in 1..Len(s) |-> IF s[i] >= 97 /\ s[i] <= 122 THEN s[i] - 32 ELSE s[i]]

\* str.swapcase() in place of str.upper()
str_swapcase(s) ==
    [i \in 1..Len(s) |-> IF s[i] >= 97 /\ s[i] <= 122 THEN s[i] - 32
                         ELSE IF s[i] >= 65 /\ s[i] <= 90 THEN s[i] + 32 ELSE s[i]]

normalize_key_swapcase(n) == IF n = Null THEN <<>> ELSE str_swapcase(SelectSeq(n, IsAlnum))

normalize_key(n) == IF n = Null THEN <<>> ELSE str_upper(SelectSeq(n, IsAlnum))

RECURSIVE LexLess(_, _)
LexLess(a, b) ==
    IF a = <<>> THEN b # <<>>
    ELSE IF b = <<>> THEN FALSE
    ELSE IF a[1] # b[1] THEN a[1] < b[1]
    ELSE LexLess(Tail(a), Tail(b))

RECURSIVE sorted(_)
sorted(S) ==
    IF S = {} THEN <<>>
    ELSE LET m == CHOOSE x \in S : \A y \in S \ {x} : LexLess(x, y)
         IN  <<m>> \o sorted(S \ {m})

Range(s) == {s[i] : i \in 1..Len(s)}

RECURSIVE SeqsUpTo(_, _)
SeqsUpTo(S, n) ==
    IF n = 0 THEN {<<>>}
    ELSE LET shorter == SeqsUpTo(S, n - 1)
         IN  shorter \cup {Append(s, x) : s \in {t \in shorter : Len(t) = n - 1}, x \in S}

----------------------------------------------------------------------------
(* The colour ramp of build_geojson._make_color and of the legend.         *)
(*                                                                         *)
(* norm is kept as the exact ratio <<n, d>> in lowest terms. Python        *)
(* evaluates 255 * (0.3 + 0.7 * norm) and 255 * (0.8 - 0.8 * norm) in      *)
(* IEEE-754 doubles and int() truncates: the result is the floor of the    *)
(* exact value, except for the ratios below, where the exact value is a    *)
(* whole number and the double lands just under it. A whole-number red     *)
(* needs a denominator dividing 357 and a whole-number green one dividing  *)
(* 204, so the two tables are complete for whole-number census values.     *)

RECURSIVE GCD(_, _)
GCD(a, b) == IF b = 0 THEN a ELSE GCD(b, a % b)

NotFinite == <<0, 0>>   \* nan or inf: int() of it raises

Raised == <<>>          \* in place of a result: the call raised

Sub(a, b) == IF a = NaN \/ b = NaN THEN NaN ELSE a - b

Div(n, d) ==
    IF n = NaN \/ d = NaN \/ d = 0 THEN NotFinite
    ELSE LET g == GCD(n, d) IN <<n \div g, d \div g>>

RedShort ==
    { <<1, 7>>, <<7, 17>>, <<13, 17>>, <<15, 17>>, <<5, 51>>, <<11, 51>>, <<13, 51>>,
      <<25, 51>>, <<31, 51>>, <<35, 51>>, <<49, 51>>, <<1, 119>>, <<9, 119>>, <<15, 119>>,
      <<25, 119>>, <<31, 119>>, <<37, 119>>, <<59, 119>>, <<61, 119>>, <<65, 119>>, <<69, 119>>,
      <<71, 119>>, <<75, 119>>, <<81, 119>>, <<83, 119>>, <<93, 119>>, <<101, 119>>, <<103, 119>>,
      <<113, 119>>, <<115, 119>>, <<117, 119>>, <<11, 357>>, <<19, 357>>, <<43, 357>>, <<59, 357>>,
      <<61, 357>>, <<67, 357>>, <<79, 357>>, <<95, 357>>, <<97, 357>>, <<113, 357>>, <<143, 357>>,
      <<145, 357>>, <<179, 357>>, <<181, 357>>, <<191, 357>>, <<193, 357>>, <<209, 357>>, <<211, 357>>,
      <<215, 357>>, <<227, 357>>, <<239, 357>>, <<241, 357>>, <<247, 357>>, <<251, 357>>, <<271, 357>>,
      <<275, 357>>, <<277, 357>>, <<281, 357>>, <<283, 357>>, <<305, 357>>, <<307, 357>>, <<311, 357>>,
      <<313, 357>>, <<317, 357>>, <<335, 357>>, <<337, 357>>, <<341, 357>>, <<347, 357>>, <<349, 357>> }

GreenShort ==
    { <<3, 4>>, <<5, 6>>, <<11, 12>>, <<6, 17>>, <<12, 17>>, <<23, 34>>, <<31, 34>>,
      <<44, 51>>, <<46, 51>>, <<49, 68>>, <<57, 68>>, <<59, 68>>, <<61, 68>>, <<65, 68>>,
      <<67, 68>>, <<53, 102>>, <<59, 102>>, <<73, 102>>, <<77, 102>>, <<89, 102>>, <<91, 102>>,
      <<101, 102>>, <<145, 204>>, <<155, 204>>, <<163, 204>>, <<169, 204>>, <<179, 204>>, <<185, 204>>,
      <<203, 204>> }

\* int(255 * (0.3 + 0.7 * norm))
int_red(norm) ==
    IF norm = NotFinite THEN NaN
    ELSE ((255 * (3 * norm[2] + 7 * norm[1])) \div (10 * norm[2]))
         - (IF norm \in RedShort THEN 1 ELSE 0)

\* int(255 * (0.8 - 0.8 * norm))
int_green(norm) ==
    IF norm = NotFinite THEN NaN
    ELSE ((255 * 8 * (norm[2] - norm[1])) \div (10 * norm[2]))
         - (IF norm \in GreenShort THEN 1 ELSE 0)

\* a list of int() results, unless one of the int() calls raised
Ints(rgb) == IF \E i \in 1..Len(rgb) : rgb[i] = NaN THEN Raised ELSE rgb

\* vmax > vmin, False when either is nan
Gt(a, b) == a # NaN /\ b # NaN /\ a > b

\* the ramp runs the wrong way: (vmax - v) / (vmax - vmin)
_make_color_reversed(v, vmin, vmax) ==
    LET norm == IF Gt(vmax, vmin) THEN Div(Sub(vmax, v), Sub(vmax, vmin)) ELSE <<0, 1>>
    IN  Ints(<<int_red(norm), int_green(norm), 0, 180>>)

\* the guard lets vmax == vmin through to the division
_make_color_unguarded(v, vmin, vmax) ==
    LET norm == IF vmax >= vmin THEN Div(Sub(v, vmin), Sub(vmax, vmin)) ELSE <<0, 1>>
    IN  Ints(<<int_red(norm), int_green(norm), 0, 180>>)

_make_color(v, vmin, vmax) ==
    LET norm == IF Gt(vmax, vmin) THEN Div(Sub(v, vmin), Sub(vmax, vmin)) ELSE <<0, 1>>
    IN  Ints(<<int_red(norm), int_green(norm), 0, 180>>)

----------------------------------------------------------------------------
(* The input files. *)

P_2011 == <<80, 95, 50, 48, 49, 49>>        \* "P_2011"
F_2011 == <<70, 95, 50, 48, 49, 49>>        \* "F_2011"
P_2016 == <<80, 95, 50, 48, 49, 54>>        \* "P_2016"
A_2016 == <<65, 95, 50, 48, 49, 54>>        \* "A_2016"
P_201 == <<80, 95, 50, 48, 49>>             \* "P_201": three digits
N_12011 == <<78, 95, 49, 50, 48, 49, 49>>   \* "N_12011": five digits

\* data column names a table may carry, in file order
ColumnPool == <<P_2011, F_2011, P_2016, A_2016, P_201, N_12011>>

\* the columns of the tables the join is studied on
JoinPool == <<P_2011, F_2011, P_2016>>

\* division names as the census table spells them: "a b", "AB", "C"
RawNames == {<<97, 32, 98>>, <<65, 66>>, <<67>>}

\* division names as the boundary file spells them: "A b", "C"
BoundaryNames == {<<65, 32, 98>>, <<67>>}

\* characters of the names given to normalize_key: space - 1 A a z
Alphabet == {32, 45, 49, 65, 97, 122}

CellValues == {NaN} \cup (0..MaxValue)

\* the subsequences of pool that have n elements
RECURSIVE SubSeqs(_, _)
SubSeqs(pool, n) ==
    IF n = 0 THEN {<<>>}
    ELSE IF Len(pool) < n THEN {}
    ELSE {<<Head(pool)>> \o s : s \in SubSeqs(Tail(pool), n - 1)} \cup SubSeqs(Tail(pool), n)

\* <<rows, columns>> of the tables within the bounds
Shapes(pool) ==
    {sh \in (0..MaxRows) \X (0..Len(pool)) : sh[2] <= MaxCells /\ sh[1] * sh[2] <= MaxCells}

\* wide is a table of columns of pool: the join_key column and the data columns,
\* row by row
WideTable(pool) ==
    \E sh \in Shapes(pool) :
        \E cs \in SubSeqs(pool, sh[2]) :
            \E rs \in [1..sh[1] -> [join_key : RawNames, cells : [1..sh[2] -> CellValues]]] :
                wide = [cols |-> cs, rows |-> rs]

\* a boundary file: the Municipality_Clean of each polygon, in file order
BoundaryFiles(n) == SeqsUpTo(BoundaryNames, n)

----------------------------------------------------------------------------
(* load_census and load_shapefile. *)

\* re.search(r"_(\d{4})$", s) matches: an underscore, four digits, the end
HasYearSuffix(s) ==
    /\ Len(s) >= 5
    /\ s[Len(s) - 4] = 95
    /\ \A i \in (Len(s) - 3)..Len(s) : IsDigit(s[i])

\* Series.str.extract(r"_(\d{4})$"): the group, NaN where there is no match
str_extract(s) == IF HasYearSuffix(s) THEN SubSeq(s, Len(s) - 3, Len(s)) ELSE Null

\* Series.str.replace(r"_(\d{4})$", "", regex=True)
str_replace(s) == IF HasYearSuffix(s) THEN SubSeq(s, 1, Len(s) - 5) ELSE s

\* df["join_key"].apply(normalize_key) left out
load_census_raw_key(t) ==
    LET R == Len(t.rows)
    IN  [k \in 1..(R * Len(t.cols)) |->
            LET j == ((k - 1) \div R) + 1
                i == ((k - 1) % R) + 1
            IN  [join_key      |-> t.rows[i].join_key,
                 variable_year |-> t.cols[j],
                 value         |-> t.rows[i].cells[j],
                 year          |-> str_extract(t.cols[j]),
                 variable      |-> str_replace(t.cols[j])]]

\* melt() goes column by column, and row by row within a column
load_census(t) ==
    LET R == Len(t.rows)
    IN  [k \in 1..(R * Len(t.cols)) |->
            LET j == ((k - 1) \div R) + 1
                i == ((k - 1) % R) + 1
            IN  [join_key      |-> normalize_key(t.rows[i].join_key),
                 variable_year |-> t.cols[j],
                 value         |-> t.rows[i].cells[j],
                 year          |-> str_extract(t.cols[j]),
                 variable      |-> str_replace(t.cols[j])]]

\* the geometry of a polygon is its position in the file
load_shapefile(g) ==
    [i \in 1..Len(g) |->
        [Municipality_Clean |-> g[i], geometry |-> i, join_key |-> normalize_key(g[i])]]

----------------------------------------------------------------------------
(* build_geojson. *)

RECURSIVE Flatten(_)
Flatten(ss) == IF ss = <<>> THEN <<>> ELSE Head(ss) \o Flatten(Tail(ss))

\* Series.min(): nan values are skipped, nan when nothing is left
SeriesMin(vs) ==
    LET present == Range(vs) \ {NaN}
    IN  IF present = {} THEN NaN ELSE CHOOSE m \in present : \A x \in present : m <= x

SeriesMax(vs) ==
    LET present == Range(vs) \ {NaN}
    IN  IF present = {} THEN NaN ELSE CHOOSE m \in present : \A x \in present : m >= x

\* df_long.query("year == @year and variable == @variable")[["join_key","value"]];
\* a nan year equals nothing, None included
query(df, year, variable) ==
    LET Test(r) == r.year # Null /\ r.year = year /\ r.variable = variable
        hits == SelectSeq(df, Test)
    IN  [k \in DOMAIN hits |-> [join_key |-> hits[k].join_key, value |-> hits[k].value]]

notna(df) == LET Test(r) == r.value # NaN IN SelectSeq(df, Test)

\* gdf.merge(df_filt, on="join_key", how="inner"): a row per matching pair,
\* in the order of the left rows
merge_inner(left, right) ==
    Flatten([i \in 1..Len(left) |->
        LET Match(r) == r.join_key = left[i].join_key
            hits == SelectSeq(right, Match)
        IN  [k \in 1..Len(hits) |->
                [Municipality_Clean |-> left[i].Municipality_Clean,
                 geometry |-> left[i].geometry,
                 join_key |-> left[i].join_key,
                 value    |-> hits[k].value]]])

\* one Feature per row of g; value_fmt is int(value) before the thousands grouping
Features(g, vmin, vmax) ==
    [k \in 1..Len(g) |->
        [geometry           |-> g[k].geometry,
         Municipality_Clean |-> g[k].Municipality_Clean,
         value_fmt          |-> g[k].value,
         fill_color         |-> _make_color(g[k].value, vmin, vmax)]]

\* the query is left out: rows of every year and variable join
build_geojson_unfiltered(df, gd, year, variable) ==
    LET df_filt == notna([k \in DOMAIN df |-> [join_key |-> df[k].join_key, value |-> df[k].value]])
        vmin    == SeriesMin([k \in DOMAIN df_filt |-> df_filt[k].value])
        vmax    == SeriesMax([k \in DOMAIN df_filt |-> df_filt[k].value])
        fs      == Features(merge_inner(gd, df_filt), vmin, vmax)
    IN  [raised |-> \E k \in DOMAIN fs : fs[k].fill_color = Raised, features |-> fs]

build_geojson(df, gd, year, variable) ==
    LET df_filt == notna(query(df, year, variable))
        vmin    == SeriesMin([k \in DOMAIN df_filt |-> df_filt[k].value])
        vmax    == SeriesMax([k \in DOMAIN df_filt |-> df_filt[k].value])
        fs      == Features(merge_inner(gd, df_filt), vmin, vmax)
    IN  [raised |-> \E k \in DOMAIN fs : fs[k].fill_color = Raised, features |-> fs]

\* Left mode, the join of the dashboard's other variant.

NoDataColor == <<200, 200, 200, 180>>   \* the "no data" fill colour

\* gdf.merge(df_filt, on="join_key", how="left"): a left row without a match
\* is kept once, its value absent
merge_left(left, right) ==
    Flatten([i \in 1..Len(left) |->
        LET Match(r) == r.join_key = left[i].join_key
            hits == SelectSeq(right, Match)
        IN  IF hits = <<>>
            THEN <<[Municipality_Clean |-> left[i].Municipality_Clean,
                    geometry |-> left[i].geometry,
                    join_key |-> left[i].join_key,
                    value    |-> NaN]>>
            ELSE [k \in 1..Len(hits) |->
                    [Municipality_Clean |-> left[i].Municipality_Clean,
                     geometry |-> left[i].geometry,
                     join_key |-> left[i].join_key,
                     value    |-> hits[k].value]]])

\* how="inner" where the variant means how="left"
build_geojson_left_inner(df, gd, year, variable) ==
    LET df_filt == notna(query(df, year, variable))
        vmin    == SeriesMin([k \in DOMAIN df_filt |-> df_filt[k].value])
        vmax    == SeriesMax([k \in DOMAIN df_filt |-> df_filt[k].value])
        fs      == Features(merge_inner(gd, df_filt), vmin, vmax)
    IN  [raised |-> \E k \in DOMAIN fs : fs[k].fill_color = Raised, features |-> fs]

build_geojson_left(df, gd, year, variable) ==
    LET df_filt == notna(query(df, year, variable))
        vmin    == SeriesMin([k \in DOMAIN df_filt |-> df_filt[k].value])
        vmax    == SeriesMax([k \in DOMAIN df_filt |-> df_filt[k].value])
        g       == merge_left(gd, df_filt)
        fs      == [k \in 1..Len(g) |->
                       [geometry           |-> g[k].geometry,
                        Municipality_Clean |-> g[k].Municipality_Clean,
                        value_fmt          |-> g[k].value,
                        fill_color         |-> IF g[k].value = NaN THEN NoDataColor
                                               ELSE _make_color(g[k].value, vmin, vmax)]]
    IN  [raised |-> \E k \in DOMAIN fs : fs[k].fill_color = Raised, features |-> fs]

----------------------------------------------------------------------------
(* The body of the script: sidebar filters, legend, map. *)

\* sorted(df_long["year"].dropna().unique())
Years(df) == sorted({df[k].year : k \in DOMAIN df} \ {Null})

\* sorted(df_long.query("year == @year")["variable"].dropna().unique())
VarsForYear(df, year) ==
    sorted({df[k].variable : k \in {j \in DOMAIN df : df[j].year # Null /\ df[j].year = year}}
           \ {Null})

\* vars_for_year[0] if vars_for_year else None
FirstOrNone(vs) == IF vs = <<>> THEN Null ELSE vs[1]

\* lines 104-118; sess is st.session_state as the run starts, the widget
\* values the browser sent already in it
sidebar(df, sess) ==
    LET years == Years(df)
        year  == IF years = <<>> THEN Null
                 ELSE IF sess.year \in Range(years) THEN sess.year ELSE years[1]
        vars_for_year == VarsForYear(df, year)
        v1 == IF sess.variable = Unset THEN FirstOrNone(vars_for_year) ELSE sess.variable
        v2 == IF v1 \notin Range(vars_for_year) THEN FirstOrNone(vars_for_year) ELSE v1
    IN  [year     |-> year,
         options  |-> vars_for_year,
         variable |-> v2,
         raised   |-> v2 \notin Range(vars_for_year)]   \* list.index raises ValueError

\* lines 121-139
legend(df, year, variable) ==
    LET filtered == query(df, year, variable)
        vmin == SeriesMin([k \in DOMAIN filtered |-> filtered[k].value])
        vmax == SeriesMax([k \in DOMAIN filtered |-> filtered[k].value])
        norm == Div(Sub(vmin, vmin), Sub(vmax, vmin))
    IN  [vmin     |-> vmin,
         vmax     |-> vmax,
         low_rgb  |-> IF vmin # NaN /\ vmin = vmax
                      THEN Ints(<<int_red(<<0, 1>>), int_red(<<0, 1>>), int_red(<<0, 1>>)>>)
                      ELSE Ints(<<int_red(norm), int_green(norm), 0>>),
         high_rgb |-> Ints(<<int_red(<<1, 1>>), int_green(<<1, 1>>), 0>>)]

NoLegend == [vmin |-> NaN, vmax |-> NaN, low_rgb |-> <<>>, high_rgb |-> <<>>]

NoRun ==
    [stage |-> "none", raised |-> FALSE, year |-> Null, variable |-> Null,
     options |-> <<>>, legend |-> NoLegend, features |-> <<>>]

\* one run of the script, top to bottom; stage is the part it reached
Script(df, gd, sess) ==
    LET sb == sidebar(df, sess)
        lg == legend(df, sb.year, sb.variable)
        gj == build_geojson(df, gd, sb.year, sb.variable)
        shown == [stage |-> "sidebar", raised |-> TRUE, year |-> sb.year,
                  variable |-> sb.variable, options |-> sb.options,
                  legend |-> NoLegend, features |-> <<>>]
    IN  [session |-> [year |-> sb.year, variable |-> sb.variable],
         out |-> IF sb.raised THEN shown
                 ELSE IF lg.low_rgb = Raised
                 THEN [shown EXCEPT !.stage = "legend", !.legend = lg]
                 ELSE [shown EXCEPT !.stage = "map", !.legend = lg,
                                    !.raised = gj.raised, !.features = gj.features]]

----------------------------------------------------------------------------
(* The dashboard: the first run loads the two files, every selection in    *)
(* the sidebar reruns the script.                                          *)

Idle ==
    /\ name = Null
    /\ keys = <<>>
    /\ vrange = <<NaN, NaN>>
    /\ swatch = <<>>

NotLoaded ==
    /\ loaded = FALSE
    /\ df_long = <<>>
    /\ gdf = <<>>
    /\ session = [year |-> Unset, variable |-> Unset]
    /\ out = NoRun

Init ==
    /\ WideTable(ColumnPool)
    /\ geo \in BoundaryFiles(1)
    /\ NotLoaded
    /\ Idle

FirstRun ==
    /\ ~loaded
    /\ loaded' = TRUE
    /\ df_long' = load_census(wide)
    /\ gdf' = load_shapefile(geo)
    /\ LET run == Script(load_census(wide), load_shapefile(geo), session)
       IN  session' = run.session /\ out' = run.out
    /\ UNCHANGED <<wide, geo, name, keys, vrange, swatch>>

SelectYear(y) ==
    /\ loaded
    /\ y \in Range(Years(df_long))
    /\ y # session.year
    /\ LET run == Script(df_long, gdf, [session EXCEPT !.year = y])
       IN  session' = run.session /\ out' = run.out
    /\ UNCHANGED <<wide, geo, loaded, df_long, gdf, name, keys, vrange, swatch>>

SelectVariable(v) ==
    /\ loaded
    /\ out.stage # "sidebar"
    /\ v \in Range(out.options)
    /\ v # session.variable
    /\ LET run == Script(df_long, gdf, [session EXCEPT !.variable = v])
       IN  session' = run.session /\ out' = run.out
    /\ UNCHANGED <<wide, geo, loaded, df_long, gdf, name, keys, vrange, swatch>>

Next ==
    \/ FirstRun
    \/ \E y \in Range(Years(df_long)) : SelectYear(y)
    \/ \E v \in Range(out.options) : SelectVariable(v)

Spec == Init /\ [][Next]_vars

\* the same dashboard on tables of up to three columns and boundary files of several polygons
InitJoin ==
    /\ WideTable(JoinPool)
    /\ geo \in BoundaryFiles(MaxBoundaries)
    /\ NotLoaded
    /\ Idle

SpecJoin == InitJoin /\ [][Next]_vars

\* load_census alone, on every table within the bounds
InitLoad ==
    /\ WideTable(ColumnPool)
    /\ geo = <<>>
    /\ NotLoaded
    /\ Idle

LoadCensus ==
    /\ ~loaded
    /\ loaded' = TRUE
    /\ df_long' = load_census(wide)
    /\ UNCHANGED <<wide, geo, gdf, session, out, name, keys, vrange, swatch>>

SpecLoad == InitLoad /\ [][LoadCensus]_vars

----------------------------------------------------------------------------
(* normalize_key applied to a name, and again to its own result, as        *)
(* load_census does to the join_key column it is given.                    *)

NoDashboard ==
    /\ wide = [cols |-> <<>>, rows |-> <<>>]
    /\ geo = <<>>
    /\ NotLoaded

InitKey ==
    /\ name \in SeqsUpTo(Alphabet, MaxLen) \cup {Null}
    /\ keys = <<>>
    /\ vrange = <<NaN, NaN>>
    /\ swatch = <<>>
    /\ NoDashboard

Normalize ==
    /\ keys = <<>>
    /\ keys' = <<normalize_key(name)>>
    /\ UNCHANGED <<wide, geo, loaded, df_long, gdf, session, out, name, vrange, swatch>>

Renormalize ==
    /\ Len(keys) = 1
    /\ keys' = Append(keys, normalize_key(keys[1]))
    /\ UNCHANGED <<wide, geo, loaded, df_long, gdf, session, out, name, vrange, swatch>>

NextKey == Normalize \/ Renormalize

SpecKey == InitKey /\ [][NextKey]_vars

----------------------------------------------------------------------------
(* _make_color under a fixed <<vmin, vmax>>, called with values of the     *)
(* filtered column, which lie between the two.                             *)

InitColor ==
    /\ vrange \in {r \in (0..MaxColorValue) \X (0..MaxColorValue) : r[1] <= r[2]}
    /\ swatch = <<>>
    /\ name = Null
    /\ keys = <<>>
    /\ NoDashboard

MakeColor(v) ==
    /\ v >= vrange[1] /\ v <= vrange[2]
    /\ swatch' = (IF Len(swatch) < 2 THEN swatch ELSE Tail(swatch))
                 \o <<[v |-> v, fill_color |-> _make_color(v, vrange[1], vrange[2])]>>
    /\ UNCHANGED <<wide, geo, loaded, df_long, gdf, session, out, name, keys, vrange>>

NextColor == \E v \in 0..MaxColorValue : MakeColor(v)

SpecColor == InitColor /\ [][NextColor]_vars

----------------------------------------------------------------------------
(* The left-mode variant: the files are loaded, then the map is built for  *)
(* a selection of the sidebar.                                             *)

LoadFiles ==
    /\ ~loaded
    /\ loaded' = TRUE
    /\ df_long' = load_census(wide)
    /\ gdf' = load_shapefile(geo)
    /\ UNCHANGED <<wide, geo, session, out, name, keys, vrange, swatch>>

BuildLeft(y, v) ==
    /\ loaded
    /\ y \in Range(Years(df_long))
    /\ v \in Range(VarsForYear(df_long, y))
    /\ session' = [year |-> y, variable |-> v]
    /\ LET gj == build_geojson_left(df_long, gdf, y, v)
       IN  out' = [stage |-> "map", raised |-> gj.raised, year |-> y, variable |-> v,
                   options |-> VarsForYear(df_long, y), legend |-> NoLegend,
                   features |-> gj.features]
    /\ UNCHANGED <<wide, geo, loaded, df_long, gdf, name, keys, vrange, swatch>>

NextLeft ==
    \/ LoadFiles
    \/ \E y \in Range(Years(df_long)) : \E v \in Range(VarsForYear(df_long, y)) : BuildLeft(y, v)

SpecLeft == InitJoin /\ [][NextLeft]_vars

----------------------------------------------------------------------------
(* Properties. *)

\* records of df with a present value for the selection <<y, v>>
PresentOf(df, y, v) ==
    {k \in DOMAIN df : df[k].year # Null /\ df[k].year = y /\ df[k].variable = v
                       /\ df[k].value # NaN}

SelPresent == PresentOf(df_long, out.year, out.variable)

SelPresentKeys == {df_long[k].join_key : k \in SelPresent}

BoundaryKeys == {gdf[b].join_key : b \in DOMAIN gdf}

\* the features emitted for boundary record b
FeaturesOf(b) == {k \in DOMAIN out.features : out.features[k].geometry = gdf[b].geometry}

\* (join_key, year, variable) is unique in the long table
UniqueCensusKeys ==
    \A k1, k2 \in DOMAIN df_long :
        (/\ df_long[k1].join_key = df_long[k2].join_key
         /\ df_long[k1].year = df_long[k2].year
         /\ df_long[k1].variable = df_long[k2].variable) => k1 = k2

DistinctBoundaryKeys ==
    \A b1, b2 \in DOMAIN gdf : gdf[b1].join_key = gdf[b2].join_key => b1 = b2

\* C1: a rerun whose selected year has at least one variable ends with a selected
\* variable that is one of that year's variables, the first of them when the
\* variable selected before is not among them, and the rerun does not raise.
C1_StickyVariable ==
    [][(loaded' /\ out'.options # <<>>) =>
          /\ out'.variable \in Range(out'.options)
          /\ session.variable \notin Range(out'.options) => out'.variable = out'.options[1]
          /\ session'.variable = out'.variable
          /\ ~out'.raised]_vars

\* The sidebar part of C1 alone: lines 104-118 never leave an invalid variable
\* selected and never raise when the year has a variable.
SidebarFallback ==
    [][(loaded' /\ out'.options # <<>>) =>
          /\ out'.variable \in Range(out'.options)
          /\ session.variable \notin Range(out'.options) => out'.variable = out'.options[1]
          /\ session'.variable = out'.variable
          /\ out'.stage # "sidebar"]_vars

\* C2 as stated: in inner mode the features are exactly the boundary records whose
\* join_key has a present value for the selection, none of them twice, and their
\* number is the size of the intersection of the two key sets.
C2_InnerExact ==
    out.stage = "map" =>
        /\ \A b \in DOMAIN gdf : (gdf[b].join_key \in SelPresentKeys) <=> FeaturesOf(b) # {}
        /\ \A b \in DOMAIN gdf : Cardinality(FeaturesOf(b)) <= 1
        /\ Len(out.features) = Cardinality(BoundaryKeys \cap SelPresentKeys)

\* C2 amended: in inner mode there is one feature per pair of a boundary record and a
\* census record with a present value for the selection and the same join_key, so a
\* boundary record appears exactly when its key has a present value; when the census
\* keys are unique and the boundary keys distinct, no boundary record appears twice
\* and the number of features is the size of the intersection of the two key sets.
C2_InnerJoin ==
    out.stage = "map" =>
        /\ \A k \in DOMAIN out.features :
              \E b \in DOMAIN gdf : out.features[k].geometry = gdf[b].geometry
        /\ \A b \in DOMAIN gdf :
              Cardinality(FeaturesOf(b))
                  = Cardinality({k \in SelPresent : df_long[k].join_key = gdf[b].join_key})
        /\ (UniqueCensusKeys /\ DistinctBoundaryKeys) =>
              /\ \A b \in DOMAIN gdf : Cardinality(FeaturesOf(b)) <= 1
              /\ Len(out.features) = Cardinality(BoundaryKeys \cap SelPresentKeys)

\* a map drawn from unique keys that shows one of two boundary records
C2_Witness ==
    /\ out.stage = "map"
    /\ UniqueCensusKeys /\ DistinctBoundaryKeys
    /\ Len(gdf) = 2
    /\ Len(out.features) = 1
    /\ Len(wide.rows) = 2

C4_NoPresentValues ==
    (loaded /\ out.options # <<>> /\ SelPresent = {}) =>
        /\ ~out.raised
        /\ out.stage = "map"
        /\ out.legend.low_rgb # Raised

\* C5: under a range with min < max, a larger value never has a smaller red or a
\* larger green component.
C5_Monotonic ==
    \A i, j \in DOMAIN swatch :
        swatch[i].v < swatch[j].v =>
            /\ swatch[i].fill_color # Raised /\ swatch[j].fill_color # Raised
            /\ swatch[i].fill_color[1] <= swatch[j].fill_color[1]
            /\ swatch[i].fill_color[2] >= swatch[j].fill_color[2]

\* two values of one range, the larger one at a ratio where the double rounds down
C5_Witness ==
    /\ Len(swatch) = 2
    /\ swatch[1].v < swatch[2].v
    /\ swatch[1].fill_color[1] < swatch[2].fill_color[1]
    /\ swatch[1].fill_color[2] > swatch[2].fill_color[2]
    /\ Div(swatch[2].v - vrange[1], vrange[2] - vrange[1]) \in GreenShort

\* C6: when min == max every value gets one defined colour, computed without the
\* division, and it is the colour a value equal to min gets under any range with
\* min < max.
C6_Degenerate ==
    vrange[1] = vrange[2] =>
        \A i \in DOMAIN swatch :
            /\ swatch[i].fill_color # Raised
            /\ Len(swatch[i].fill_color) = 4
            /\ \A lo, hi \in 0..MaxColorValue :
                  lo < hi => swatch[i].fill_color = _make_color(lo, lo, hi)

C6_Witness ==
    /\ vrange[1] = vrange[2]
    /\ vrange[1] > 0
    /\ Len(swatch) >= 1
    /\ swatch[1].v = vrange[1]

\* every data column is named <variable>_<4-digit-year>
AllWellFormed == \A j \in DOMAIN wide.cols : HasYearSuffix(wide.cols[j])

\* the long-format record of row i and column j
Expected(i, j) ==
    LET col == wide.cols[j]
    IN  [join_key |-> normalize_key(wide.rows[i].join_key),
         year     |-> SubSeq(col, Len(col) - 3, Len(col)),
         variable |-> SubSeq(col, 1, Len(col) - 5),
         value    |-> wide.rows[i].cells[j]]

IsRecordOf(k, e) ==
    /\ df_long[k].join_key = e.join_key
    /\ df_long[k].year = e.year
    /\ df_long[k].variable = e.variable
    /\ df_long[k].value = e.value

\* C7: of a table whose data columns are all named <variable>_<4-digit-year>,
\* load_census yields one record per (row, data column) pair and no others, with
\* the normalized identifier, the trailing four digits as year, the rest of the
\* column name before the underscore as variable, and the cell as value.
C7_Reshape ==
    (loaded /\ AllWellFormed) =>
        /\ Len(df_long) = Len(wide.rows) * Len(wide.cols)
        /\ \A i \in DOMAIN wide.rows : \A j \in DOMAIN wide.cols :
              Cardinality({k \in DOMAIN df_long : IsRecordOf(k, Expected(i, j))})
                  = Cardinality({p \in (DOMAIN wide.rows) \X (DOMAIN wide.cols) :
                                    Expected(p[1], p[2]) = Expected(i, j)})

\* two rows and two columns of different years, an identifier that normalization changes
C7_Witness ==
    /\ loaded /\ AllWellFormed
    /\ Len(wide.rows) = 2 /\ Len(wide.cols) = 2
    /\ str_extract(wide.cols[1]) # str_extract(wide.cols[2])
    /\ \E i \in DOMAIN wide.rows : normalize_key(wide.rows[i].join_key) # wide.rows[i].join_key
    /\ wide.rows[1].cells[1] # wide.rows[2].cells[2]

\* C8: a column whose name does not end in _<four digits> contributes no record:
\* no record of the long table has an absent year or the whole column name as its
\* variable.
C8_MalformedExcluded ==
    loaded =>
        \A k \in DOMAIN df_long :
            /\ df_long[k].year # Null
            /\ df_long[k].variable # df_long[k].variable_year

\* C9: normalize_key of a normalized key is that key.
C9_Idempotent == Len(keys) = 2 => keys[2] = keys[1]

\* a name that normalization changes into a non-empty key, normalized twice
C9_Witness ==
    /\ Len(keys) = 2
    /\ name # Null
    /\ keys[1] # name
    /\ keys[1] # <<>>

\* C10: with a present value in the selection, the low end of the legend bar is the
\* RGB of the fill colour of a division at the minimum, and for min < max the high
\* end is that of a division at the maximum.
C10_LegendMatchesMap ==
    (out.stage \in {"legend", "map"} /\ SelPresent # {}) =>
        LET vmin == out.legend.vmin
            vmax == out.legend.vmax
        IN  /\ out.legend.low_rgb = SubSeq(_make_color(vmin, vmin, vmax), 1, 3)
            /\ vmin < vmax => out.legend.high_rgb = SubSeq(_make_color(vmax, vmin, vmax), 1, 3)

====
